---- MODULE Spec2Model ----
(***************************************************************************)
(* Startup orchestration of the CherryMusic server                         *)
(* (cherrymusicserver/__init__.py, class CherryMusic).                     *)
(*                                                                         *)
(* Every process of Procs runs CherryMusic.__init__ once against the same  *)
(* file system: the process id file, the configuration file, the schema   *)
(* version store and the persisted file index are shared.  A process is    *)
(* the primary thread (pc), the signal handler that preempts it and never  *)
(* returns (stopAndCleanUp ends in sys.exit), and the "Updater" thread.    *)
(***************************************************************************)
EXTENDS Integers, Sequences, FiniteSets, TLC

\* ------------------------------------------------------------------ bounds
MaxTargets == 1

\* two instances of the server, started against the same user data directory
Procs == {1, 2}
Paths == {"a", "b"}

\* what the persisted file index covers before any process starts
InitialIndex == {"a"}

\* the process id file: absent, or holding the pid of the process that wrote it
NoFile == 0

\* ------------------------------------------------------ entry parameters
\* update=None is [given |-> FALSE]; update=[] or () is given with no paths
None == [given |-> FALSE, paths |-> <<>>]
EmptyUpdate == [given |-> TRUE, paths |-> <<>>]

RECURSIVE SeqsUpTo(_, _)
SeqsUpTo(S, n) ==
    IF n = 0 THEN {<<>>}
    ELSE LET shorter == SeqsUpTo(S, n - 1)
         IN  shorter \cup {Append(s, x) : s \in shorter, x \in S}

UpdateArgs == {None} \cup {[given |-> TRUE, paths |-> t] : t \in SeqsUpTo(Paths, MaxTargets)}

Args == [createNewConfig : BOOLEAN, dropfiledb : BOOLEAN, setup : BOOLEAN]

\* an argument is read into args (update: into the variable update) when
\* __init__ first uses it; until then it holds these values
NoArgs == [createNewConfig |-> FALSE, dropfiledb |-> FALSE, setup |-> FALSE]

\* Python truthiness of the update argument: None and the empty list are falsy
Truthy(u) == u.given /\ Len(u.paths) > 0

\* the schema version the code expects (database.ensure_current_version)
ExpectedVersion == 1

\* the index after database.resetdb, after SQLiteCache.partial_update(*targets)
\* and after SQLiteCache.full_update()
ResetIndex == {}
PartialUpdated(idx, targets) == idx \cup {targets[i] : i \in 1..Len(targets)}
FullUpdated == Paths

VARIABLES
    pc,             \* position of each process's primary thread
    args,           \* createNewConfig, dropfiledb and setup of CherryMusic()
    update,         \* the parameter update, reassigned by setup_databases
    signalled,      \* stopAndCleanUp was entered as a signal handler
    exitCause,      \* why the process ended ("none" while it has not)
    configResolved, \* the global config was set by _init_config
    gate,           \* progress of database.ensure_current_version
    thread,         \* the Updater thread: none, running, done
    indexOps,       \* index operations the Updater thread performed
    serviceStarted, \* cherrypy.engine.start() was called by start_server
    created,        \* this process wrote the process id file
    removed,        \* pids of the process id files this process removed
    released,       \* calls of delete_pid_file that returned
    mutated,        \* persisted stores this process has written to
    pidfile,        \* the process id file
    configFile,     \* the configuration file exists
    newConfigFile,  \* the file <configuration file>.new exists
    schemaVersion,  \* the schema version store
    index,          \* the persisted file index: the paths it covers
    defaults,       \* _init_config: the configuration cfg.from_defaults()
    filecfg,        \* _init_config: the configuration read from the file
    override_dict,  \* _init_config: its parameter
    config,         \* the global config
    new,            \* _check_for_config_updates: the list new
    deprecated,     \* _check_for_config_updates: the list deprecated
    configStep      \* "idle", or "start" and "done" around _init_config

procvars == <<pc, args, update, signalled, exitCause, configResolved, gate,
              thread, indexOps, serviceStarted, created, removed, released,
              mutated>>
filevars == <<pidfile, configFile, newConfigFile, schemaVersion, index>>
cfgvars == <<defaults, filecfg, override_dict, config, new, deprecated,
             configStep>>
vars == <<procvars, filevars, cfgvars>>

\* no process has started
ProcInit ==
    /\ pc = [p \in Procs |-> "init"]
    /\ args = [p \in Procs |-> NoArgs]
    /\ update = [p \in Procs |-> None]
    /\ signalled = [p \in Procs |-> FALSE]
    /\ exitCause = [p \in Procs |-> "none"]
    /\ configResolved = [p \in Procs |-> FALSE]
    /\ gate = [p \in Procs |-> "none"]
    /\ thread = [p \in Procs |-> "none"]
    /\ indexOps = [p \in Procs |-> <<>>]
    /\ serviceStarted = [p \in Procs |-> FALSE]
    /\ created = [p \in Procs |-> FALSE]
    /\ removed = [p \in Procs |-> {}]
    /\ released = [p \in Procs |-> 0]
    /\ mutated = [p \in Procs |-> {}]

Init ==
    /\ ProcInit
    /\ pidfile = NoFile
    /\ configFile \in BOOLEAN
    /\ newConfigFile = FALSE
    /\ schemaVersion \in 0..ExpectedVersion
    /\ index = InitialIndex
    /\ defaults = <<>> /\ filecfg = <<>> /\ override_dict = <<>>
    /\ config = <<>> /\ new = <<>> /\ deprecated = <<>>
    /\ configStep = "idle"

\* ------------------------------------------------------------- helpers
pidFileExists == pidfile # NoFile

\* sys.exit(...) in the primary thread: the process ends with this cause
Exit(p, cause) ==
    /\ pc' = [pc EXCEPT ![p] = "terminated"]
    /\ exitCause' = [exitCause EXCEPT ![p] = cause]

Goto(p, label) ==
    /\ pc' = [pc EXCEPT ![p] = label]
    /\ UNCHANGED exitCause

\* the exit status of each cause: sys.exit(0), sys.exit(1), sys.exit(<text>)
\* and an uncaught exception give 0, 1, 1, 1; -1: ended by the signal itself
ExitStatus(cause) ==
    CASE cause \in {"new_config", "welcome", "cleanup"} -> 0
      [] cause \in {"migration_notice", "already_running",
                    "consent_refused", "os_error"} -> 1
      [] OTHER -> -1

\* ------------------------------------------------------------- __init__
\* CherryMusic(update, createNewConfig, dropfiledb, setup): setup_services
Start(p) ==
    /\ pc[p] = "init"
    /\ \E s \in BOOLEAN : args' = [args EXCEPT ![p].setup = s]
    /\ Goto(p, "setup_config")
    /\ UNCHANGED <<cfgvars, update, signalled, configResolved, gate, thread, indexOps,
                   serviceStarted, created, removed, released, mutated, filevars>>

\* setup_config, browsersetup branch: the in-browser configuration server
browsersetup(p) ==
    /\ pc[p] = "setup_config"
    /\ args[p].setup
    /\ Goto(p, "config_file")
    /\ UNCHANGED <<cfgvars, args, update, signalled, configResolved, gate, thread,
                   indexOps, serviceStarted, created, removed, released, mutated, filevars>>

\* setup_config writing the defaults without printWelcomeAndExit
setup_config_NoWelcomeExit(p) ==
    /\ \/ pc[p] = "setup_config" /\ ~args[p].setup
       \/ pc[p] = "config_file"
    /\ \E c \in BOOLEAN : args' = [args EXCEPT ![p].createNewConfig = c]
    /\ IF args'[p].createNewConfig
       THEN /\ newConfigFile' = TRUE
            /\ Exit(p, "new_config")
            /\ UNCHANGED <<configFile, configResolved>>
       ELSE IF ~configFile
       THEN \E fallbackPathInUse \in BOOLEAN :
              IF fallbackPathInUse
              THEN /\ Exit(p, "migration_notice")
                   /\ UNCHANGED <<configFile, newConfigFile, configResolved>>
              ELSE /\ configFile' = TRUE
                   /\ configResolved' = [configResolved EXCEPT ![p] = TRUE]
                   /\ Goto(p, "install_handlers")
                   /\ UNCHANGED newConfigFile
       ELSE /\ configResolved' = [configResolved EXCEPT ![p] = TRUE]
            /\ Goto(p, "install_handlers")
            /\ UNCHANGED <<configFile, newConfigFile>>
    /\ UNCHANGED <<cfgvars, update, signalled, gate, thread, indexOps,
                   serviceStarted, created, removed, released, mutated,
                   pidfile, schemaVersion, index>>

\* setup_config after the browsersetup branch
setup_config(p) ==
    /\ \/ pc[p] = "setup_config" /\ ~args[p].setup
       \/ pc[p] = "config_file"
    /\ \E c \in BOOLEAN : args' = [args EXCEPT ![p].createNewConfig = c]
    /\ IF args'[p].createNewConfig
       THEN /\ newConfigFile' = TRUE
            /\ Exit(p, "new_config")
            /\ UNCHANGED <<configFile, configResolved>>
       ELSE IF ~configFile
       THEN \E fallbackPathInUse \in BOOLEAN :
              IF fallbackPathInUse
              THEN /\ Exit(p, "migration_notice")
                   /\ UNCHANGED <<configFile, newConfigFile, configResolved>>
              ELSE /\ configFile' = TRUE
                   /\ Exit(p, "welcome")
                   /\ UNCHANGED <<newConfigFile, configResolved>>
       ELSE /\ configResolved' = [configResolved EXCEPT ![p] = TRUE]
            /\ Goto(p, "install_handlers")
            /\ UNCHANGED <<configFile, newConfigFile>>
    /\ UNCHANGED <<cfgvars, update, signalled, gate, thread, indexOps,
                   serviceStarted, created, removed, released, mutated,
                   pidfile, schemaVersion, index>>

\* signal.signal(SIGTERM, stopAndCleanUp); signal.signal(SIGINT, ...)
install_handlers(p) ==
    /\ pc[p] = "install_handlers"
    /\ Goto(p, "create_pid_file")
    /\ UNCHANGED <<cfgvars, args, update, signalled, configResolved, gate, thread,
                   indexOps, serviceStarted, created, removed, released, mutated, filevars>>

HandlersInstalled(p) ==
    pc[p] \notin {"init", "setup_config", "config_file", "install_handlers",
                  "terminated"}

\* ------------------------------------------------------ InstanceGuard
\* create_pid_file without its sys.exit: the file is overwritten
create_pid_file_NoExit(p) ==
    /\ pc[p] = "create_pid_file"
    /\ Goto(p, "write_pid_file")
    /\ UNCHANGED <<cfgvars, args, update, signalled, configResolved, gate, thread,
                   indexOps, serviceStarted, created, removed, released, mutated, filevars>>

\* create_pid_file without its else branch: no file is written
create_pid_file_NoWrite(p) ==
    /\ pc[p] = "create_pid_file"
    /\ IF pidFileExists
       THEN Exit(p, "already_running")
       ELSE Goto(p, "setup_databases")
    /\ UNCHANGED <<cfgvars, args, update, signalled, configResolved, gate, thread,
                   indexOps, serviceStarted, created, removed, released, mutated, filevars>>

\* create_pid_file, the test: exit if the process id file already exists
create_pid_file(p) ==
    /\ pc[p] = "create_pid_file"
    /\ IF pidFileExists
       THEN Exit(p, "already_running")
       ELSE Goto(p, "write_pid_file")
    /\ UNCHANGED <<cfgvars, args, update, signalled, configResolved, gate, thread,
                   indexOps, serviceStarted, created, removed, released, mutated, filevars>>

\* create_pid_file, the else branch: open(pidFile, 'w') and write the pid
write_pid_file(p) ==
    /\ pc[p] = "write_pid_file"
    /\ pidfile' = p
    /\ created' = [created EXCEPT ![p] = TRUE]
    /\ Goto(p, "setup_databases")
    /\ UNCHANGED <<cfgvars, args, update, signalled, configResolved, gate, thread,
                   indexOps, serviceStarted, removed, released, mutated,
                   configFile, newConfigFile, schemaVersion, index>>

\* delete_pid_file returns to its caller: stopAndCleanUp goes on to
\* sys.exit(0), __init__ returns
AfterDelete(p, inStop) ==
    /\ released' = [released EXCEPT ![p] = @ + 1]
    /\ IF inStop
       THEN Exit(p, "cleanup")
       ELSE Goto(p, "returned")

\* delete_pid_file without its test: os.remove is always called
delete_pid_file_NoTest(p) ==
    /\ pc[p] \in {"stopAndCleanUp", "delete_pid_file"}
    /\ Goto(p, IF pc[p] = "stopAndCleanUp" THEN "stop_remove" ELSE "final_remove")
    /\ UNCHANGED <<cfgvars, args, update, signalled, configResolved, gate, thread,
                   indexOps, serviceStarted, created, removed, released, mutated, filevars>>

\* delete_pid_file, the test: remove the file only if it exists
delete_pid_file(p) ==
    /\ pc[p] \in {"stopAndCleanUp", "delete_pid_file"}
    /\ IF pidFileExists
       THEN /\ Goto(p, IF pc[p] = "stopAndCleanUp" THEN "stop_remove"
                                                   ELSE "final_remove")
            /\ UNCHANGED released
       ELSE AfterDelete(p, pc[p] = "stopAndCleanUp")
    /\ UNCHANGED <<cfgvars, args, update, signalled, configResolved, gate, thread,
                   indexOps, serviceStarted, created, removed, mutated, filevars>>

\* delete_pid_file, os.remove(pidFile): raises OSError if the file is gone
os_remove(p) ==
    /\ pc[p] \in {"stop_remove", "final_remove"}
    /\ IF pidFileExists
       THEN /\ pidfile' = NoFile
            /\ removed' = [removed EXCEPT ![p] = @ \cup {pidfile}]
            /\ AfterDelete(p, pc[p] = "stop_remove")
       ELSE /\ Exit(p, "os_error")
            /\ UNCHANGED <<pidfile, removed, released>>
    /\ UNCHANGED <<cfgvars, args, update, signalled, configResolved, gate, thread,
                   indexOps, serviceStarted, created, mutated,
                   configFile, newConfigFile, schemaVersion, index>>

\* a signal handler that calls os.remove without the os.path.exists test
Signal_RemovesUntested(p) ==
    /\ HandlersInstalled(p)
    /\ signalled' = [signalled EXCEPT ![p] = TRUE]
    /\ Goto(p, "stop_remove")
    /\ UNCHANGED <<cfgvars, args, update, configResolved, gate, thread, indexOps,
                   serviceStarted, created, removed, released, mutated, filevars>>

\* SIGTERM or SIGINT once the handlers are installed: stopAndCleanUp takes
\* over the primary thread and ends in sys.exit(0), so it never returns
Signal(p) ==
    /\ HandlersInstalled(p)
    /\ signalled' = [signalled EXCEPT ![p] = TRUE]
    /\ Goto(p, "stopAndCleanUp")
    /\ UNCHANGED <<cfgvars, args, update, configResolved, gate, thread, indexOps,
                   serviceStarted, created, removed, released, mutated, filevars>>

\* SIGTERM or SIGINT before signal.signal(...): the default disposition
DefaultSignal(p) ==
    /\ pc[p] \in {"setup_config", "config_file", "install_handlers"}
    /\ Exit(p, "killed")
    /\ UNCHANGED <<cfgvars, args, update, signalled, configResolved, gate, thread,
                   indexOps, serviceStarted, created, removed, released, mutated, filevars>>

\* --------------------------------------------------------- SchemaGate
\* setup_databases is called with update and dropfiledb
setup_databases(p) ==
    /\ pc[p] = "setup_databases"
    /\ \E u \in UpdateArgs, d \in BOOLEAN :
         /\ update' = [update EXCEPT ![p] = u]
         /\ args' = [args EXCEPT ![p].dropfiledb = d]
    /\ Goto(p, "resetdb")
    /\ UNCHANGED <<cfgvars, signalled, configResolved, gate, thread, indexOps,
                   serviceStarted, created, removed, released, mutated, filevars>>

\* setup_databases without "update = ()" under dropfiledb
NormalisedUpdate_KeepsTargets(u, dropfiledb, setup) ==
    IF setup /\ ~Truthy(u) THEN EmptyUpdate ELSE u

\* setup_databases without "if setup: update = update or ()"
NormalisedUpdate_SetupKeepsNone(u, dropfiledb, setup) ==
    IF dropfiledb THEN EmptyUpdate ELSE u

\* the value of update after "if dropfiledb: update = ()" and
\* "if setup: update = update or ()"
NormalisedUpdate(u, dropfiledb, setup) ==
    LET dropped == IF dropfiledb THEN EmptyUpdate ELSE u
    IN  IF setup /\ ~Truthy(dropped) THEN EmptyUpdate ELSE dropped

\* setup_databases starting the Updater thread before the schema check
resetdb_LaunchesFirst(p) ==
    /\ pc[p] = "resetdb"
    /\ update' = [update EXCEPT
                    ![p] = NormalisedUpdate(@, args[p].dropfiledb, args[p].setup)]
    /\ IF args[p].dropfiledb
       THEN /\ index' = ResetIndex
            /\ mutated' = [mutated EXCEPT ![p] = @ \cup {"index"}]
       ELSE UNCHANGED <<index, mutated>>
    /\ thread' = [thread EXCEPT
                    ![p] = IF update'[p].given THEN "running" ELSE @]
    /\ Goto(p, "ensure_current_version")
    /\ UNCHANGED <<cfgvars, args, signalled, configResolved, gate, indexOps,
                   serviceStarted, created, removed, released,
                   pidfile, configFile, newConfigFile, schemaVersion>>

\* setup_databases resetting the file db without the test "if dropfiledb"
resetdb_Unconditional(p) ==
    /\ pc[p] = "resetdb"
    /\ update' = [update EXCEPT
                    ![p] = NormalisedUpdate(@, args[p].dropfiledb, args[p].setup)]
    /\ index' = ResetIndex
    /\ mutated' = [mutated EXCEPT ![p] = @ \cup {"index"}]
    /\ Goto(p, "ensure_current_version")
    /\ UNCHANGED <<cfgvars, args, signalled, configResolved, gate, thread, indexOps,
                   serviceStarted, created, removed, released,
                   pidfile, configFile, newConfigFile, schemaVersion>>

\* setup_databases without its call of database.ensure_current_version
resetdb_SkipsGate(p) ==
    /\ pc[p] = "resetdb"
    /\ update' = [update EXCEPT
                    ![p] = NormalisedUpdate(@, args[p].dropfiledb, args[p].setup)]
    /\ IF args[p].dropfiledb
       THEN /\ index' = ResetIndex
            /\ mutated' = [mutated EXCEPT ![p] = @ \cup {"index"}]
       ELSE UNCHANGED <<index, mutated>>
    /\ Goto(p, "launch")
    /\ UNCHANGED <<cfgvars, args, signalled, configResolved, gate, thread, indexOps,
                   serviceStarted, created, removed, released,
                   pidfile, configFile, newConfigFile, schemaVersion>>

\* setup_databases up to the schema check: dropfiledb resets the file db
\* (database.resetdb) and forces update = (); setup turns None into ()
resetdb(p) ==
    /\ pc[p] = "resetdb"
    /\ update' = [update EXCEPT
                    ![p] = NormalisedUpdate(@, args[p].dropfiledb, args[p].setup)]
    /\ IF args[p].dropfiledb
       THEN /\ index' = ResetIndex
            /\ mutated' = [mutated EXCEPT ![p] = @ \cup {"index"}]
       ELSE UNCHANGED <<index, mutated>>
    /\ Goto(p, "ensure_current_version")
    /\ UNCHANGED <<cfgvars, args, signalled, configResolved, gate, thread, indexOps,
                   serviceStarted, created, removed, released,
                   pidfile, configFile, newConfigFile, schemaVersion>>

\* database.ensure_current_version: true at once if the schema is current,
\* else the consent callback is called and blocks on input()
ensure_current_version(p) ==
    /\ pc[p] = "ensure_current_version"
    /\ IF schemaVersion = ExpectedVersion
       THEN /\ gate' = [gate EXCEPT ![p] = "current"]
            /\ Goto(p, "launch")
       ELSE /\ gate' = [gate EXCEPT ![p] = "asking"]
            /\ Goto(p, "consent")
    /\ UNCHANGED <<cfgvars, args, update, signalled, configResolved, thread, indexOps,
                   serviceStarted, created, removed, released, mutated, filevars>>

\* setup_databases without "if not db_is_ready: sys.exit(1)"
consent_IgnoresRefusal(p) ==
    /\ pc[p] = "consent"
    /\ \E answer \in BOOLEAN :
         IF answer
         THEN /\ schemaVersion' = ExpectedVersion
              /\ mutated' = [mutated EXCEPT ![p] = @ \cup {"schema"}]
              /\ gate' = [gate EXCEPT ![p] = "migrated"]
         ELSE /\ gate' = [gate EXCEPT ![p] = "refused"]
              /\ UNCHANGED <<schemaVersion, mutated>>
    /\ Goto(p, "launch")
    /\ UNCHANGED <<cfgvars, args, update, signalled, configResolved, thread, indexOps,
                   serviceStarted, created, removed, released,
                   pidfile, configFile, newConfigFile, index>>

\* _get_user_consent_for_db_schema_update returns; on 'y' the gate migrates
\* and returns true, else it returns false and setup_databases does sys.exit(1)
consent(p) ==
    /\ pc[p] = "consent"
    /\ \E answer \in BOOLEAN :
         IF answer
         THEN /\ schemaVersion' = ExpectedVersion
              /\ mutated' = [mutated EXCEPT ![p] = @ \cup {"schema"}]
              /\ gate' = [gate EXCEPT ![p] = "migrated"]
              /\ Goto(p, "launch")
         ELSE /\ gate' = [gate EXCEPT ![p] = "refused"]
              /\ Exit(p, "consent_refused")
              /\ UNCHANGED <<schemaVersion, mutated>>
    /\ UNCHANGED <<cfgvars, args, update, signalled, configResolved, thread, indexOps,
                   serviceStarted, created, removed, released,
                   pidfile, configFile, newConfigFile, index>>

\* -------------------------------------------------- BackgroundRefresher
\* setup_databases with "if setup:" in place of "if not setup:"
launch_SetupExits(p) ==
    /\ pc[p] = "launch"
    /\ IF update[p].given
       THEN /\ thread' = [thread EXCEPT ![p] = "running"]
            /\ Goto(p, IF args[p].setup THEN "stopAndCleanUp" ELSE "start_server")
       ELSE /\ Goto(p, "start_server")
            /\ UNCHANGED thread
    /\ UNCHANGED <<cfgvars, args, update, signalled, configResolved, gate, indexOps,
                   serviceStarted, created, removed, released, mutated, filevars>>

\* setup_databases, the end: start the Updater thread if update is not None,
\* and unless setup was asked for call stopAndCleanUp
launch(p) ==
    /\ pc[p] = "launch"
    /\ IF update[p].given
       THEN /\ thread' = [thread EXCEPT ![p] = "running"]
            /\ Goto(p, IF args[p].setup THEN "start_server" ELSE "stopAndCleanUp")
       ELSE /\ Goto(p, "start_server")
            /\ UNCHANGED thread
    /\ UNCHANGED <<cfgvars, args, update, signalled, configResolved, gate, indexOps,
                   serviceStarted, created, removed, released, mutated, filevars>>

\* what _update_if_necessary asks of the index for this value of update
RefreshRequest(u) ==
    IF Truthy(u) THEN [op |-> "partial", targets |-> u.paths]
    ELSE IF u.given THEN [op |-> "full", targets |-> <<>>]
    ELSE [op |-> "none", targets |-> <<>>]

\* _update_if_necessary with "if update is not None" in place of "elif":
\* a partial update is followed by a full one
_update_if_necessary_AlsoFull(p) ==
    /\ thread[p] = "running"
    /\ thread' = [thread EXCEPT ![p] = "done"]
    /\ LET r == RefreshRequest(update[p])
           full == [op |-> "full", targets |-> <<>>]
       IN  IF r.op = "none"
           THEN UNCHANGED <<indexOps, index, mutated>>
           ELSE /\ indexOps' = [indexOps EXCEPT
                                  ![p] = IF r.op = "partial"
                                         THEN Append(Append(@, r), full)
                                         ELSE Append(@, r)]
                /\ index' = FullUpdated
                /\ mutated' = [mutated EXCEPT ![p] = @ \cup {"index"}]
    /\ UNCHANGED <<cfgvars, pc, args, update, signalled, exitCause, configResolved, gate,
                   serviceStarted, created, removed, released,
                   pidfile, configFile, newConfigFile, schemaVersion>>

\* the Updater thread, _update_if_necessary: partial_update(*update) or
\* full_update()
_update_if_necessary(p) ==
    /\ thread[p] = "running"
    /\ thread' = [thread EXCEPT ![p] = "done"]
    /\ LET r == RefreshRequest(update[p])
       IN  IF r.op = "none"
           THEN UNCHANGED <<indexOps, index, mutated>>
           ELSE /\ indexOps' = [indexOps EXCEPT ![p] = Append(@, r)]
                /\ index' = IF r.op = "partial"
                            THEN PartialUpdated(index, r.targets)
                            ELSE FullUpdated
                /\ mutated' = [mutated EXCEPT ![p] = @ \cup {"index"}]
    /\ UNCHANGED <<cfgvars, pc, args, update, signalled, exitCause, configResolved, gate,
                   serviceStarted, created, removed, released,
                   pidfile, configFile, newConfigFile, schemaVersion>>

\* ------------------------------------------------------- service layer
\* start_server: mounts the handler and calls cherrypy.engine.start()
start_server(p) ==
    /\ pc[p] = "start_server"
    /\ serviceStarted' = [serviceStarted EXCEPT ![p] = TRUE]
    /\ Goto(p, "serving")
    /\ UNCHANGED <<cfgvars, args, update, signalled, configResolved, gate, thread,
                   indexOps, created, removed, released, mutated, filevars>>

\* start_server returns to __init__, which goes on to delete_pid_file
start_server_returns(p) ==
    /\ pc[p] = "serving"
    /\ Goto(p, "delete_pid_file")
    /\ UNCHANGED <<cfgvars, args, update, signalled, configResolved, gate, thread,
                   indexOps, serviceStarted, created, removed, released, mutated, filevars>>

\* ------------------------------------------------------- specification
Next ==
    \E p \in Procs :
        \/ Start(p)
        \/ browsersetup(p)
        \/ setup_config(p)
        \/ install_handlers(p)
        \/ create_pid_file(p)
        \/ write_pid_file(p)
        \/ setup_databases(p)
        \/ resetdb(p)
        \/ ensure_current_version(p)
        \/ consent(p)
        \/ launch(p)
        \/ _update_if_necessary(p)
        \/ start_server(p)
        \/ start_server_returns(p)
        \/ delete_pid_file(p)
        \/ os_remove(p)
        \/ Signal(p)
        \/ DefaultSignal(p)

Spec == Init /\ [][Next]_vars

\* one process running on its own: no other instance is ever started
Alone == CHOOSE p \in Procs : TRUE

AloneNext ==
    \/ Start(Alone)
    \/ browsersetup(Alone)
    \/ setup_config(Alone)
    \/ install_handlers(Alone)
    \/ create_pid_file(Alone)
    \/ write_pid_file(Alone)
    \/ setup_databases(Alone)
    \/ resetdb(Alone)
    \/ ensure_current_version(Alone)
    \/ consent(Alone)
    \/ launch(Alone)
    \/ _update_if_necessary(Alone)
    \/ start_server(Alone)
    \/ start_server_returns(Alone)
    \/ delete_pid_file(Alone)
    \/ os_remove(Alone)
    \/ Signal(Alone)
    \/ DefaultSignal(Alone)

SpecAlone == Init /\ [][AloneNext]_vars

\* ------------------------------------------------------ ConfigResolver
\* property values run over 1..MaxValue; Invalid is a value that the
\* validity rule of a property rejects
MaxValue == 2
Values == 1..MaxValue
Invalid == MaxValue + 1
Valid(v) == v \in Values

\* dotted keys as tuples of their parts: "s.a" and "z"
KeyA == <<"s", "a">>
KeyZ == <<"z">>
Keys == {KeyA, KeyZ}
KeyOrder == <<KeyA, KeyZ>>

\* the mappings from some of the keys to V
MapsTo(V) == UNION {[D -> V] : D \in SUBSET Keys}
Properties == [value : Values, hidden : BOOLEAN]

\* Configuration.replace(other, on_error=log.e): other's values laid over
\* base key by key; a value that is rejected is logged and base's is kept
Replace(base, other) ==
    LET accepted == {k \in DOMAIN other : Valid(other[k])}
    IN  [k \in DOMAIN base \cup accepted |->
            IF k \in accepted
            THEN [value |-> other[k],
                  hidden |-> IF k \in DOMAIN base THEN base[k].hidden ELSE FALSE]
            ELSE base[k]]

\* cfg.to_list: the keys of the properties of conf, in key order
ToList(conf) == SelectSeq(KeyOrder, LAMBDA k : k \in DOMAIN conf)

\* '[{0}]: {2}'.format(*(s.partition('.')))
transform(s) == <<"[", s[1], "]: ", IF Len(s) > 1 THEN s[2] ELSE "">>

\* _init_config with the second replace applied first
InitConfig_FileWins(d, f, o) ==
    LET custom == Replace(d, o)
    IN  Replace(custom, f)

\* the value of the global config that _init_config computes
InitConfig(d, f, o) ==
    LET custom == Replace(d, f)
    IN  Replace(custom, o)

\* the first loop without "and not property.hidden"
NewOptions_ReportsHidden(default, known_config) ==
    LET sel == SelectSeq(ToList(default),
                         LAMBDA k : k \notin DOMAIN known_config)
    IN  [i \in 1..Len(sel) |-> transform(sel[i])]

\* _check_for_config_updates, the first loop: the list new
NewOptions(default, known_config) ==
    LET sel == SelectSeq(ToList(default),
                         LAMBDA k : /\ k \notin DOMAIN known_config
                                    /\ ~default[k].hidden)
    IN  [i \in 1..Len(sel) |-> transform(sel[i])]

\* _check_for_config_updates, the second loop: the list deprecated
DeprecatedOptions(default, known_config) ==
    LET sel == SelectSeq(ToList(known_config),
                         LAMBDA k : k \notin DOMAIN default)
    IN  [i \in 1..Len(sel) |-> transform(sel[i])]

\* _init_config called with some defaults, some configuration file and
\* some override
ConfigInit ==
    /\ ProcInit
    /\ pidfile = NoFile
    /\ configFile = TRUE
    /\ newConfigFile = FALSE
    /\ schemaVersion = ExpectedVersion
    /\ index = InitialIndex
    /\ defaults \in MapsTo(Properties)
    /\ filecfg \in MapsTo(Values \cup {Invalid})
    /\ override_dict \in MapsTo(Values \cup {Invalid})
    /\ config = <<>> /\ new = <<>> /\ deprecated = <<>>
    /\ configStep = "start"

\* _init_config, with its call of _check_for_config_updates
_init_config ==
    /\ configStep = "start"
    /\ config' = InitConfig(defaults, filecfg, override_dict)
    /\ new' = NewOptions(defaults, filecfg)
    /\ deprecated' = DeprecatedOptions(defaults, filecfg)
    /\ configStep' = "done"
    /\ UNCHANGED <<procvars, filevars, defaults, filecfg, override_dict>>

ConfigNext == _init_config

SpecConfig == ConfigInit /\ [][ConfigNext]_vars

\* ------------------------------------------------------------- claims
\* what a process has done to the shared stores and to itself
OwnEffects(p) ==
    <<gate[p], thread[p], serviceStarted[p], created[p], removed[p],
      released[p], mutated[p], indexOps[p], update[p]>>

\* the process is past create_pid_file and has neither released nor ended
HoldsGuard(p) ==
    created[p] /\ released[p] = 0 /\ pc[p] # "terminated"

GateReturnedTrue(p) == gate[p] \in {"current", "migrated"}

\* C1: of two processes started against the same process id file, at most
\* one is past create_pid_file (holds the guard) at any time.
C1_AtMostOneHoldsGuard ==
    Cardinality({p \in Procs : HoldsGuard(p)}) <= 1

\* C2: create_pid_file reached while the process id file exists ends the
\* process with AlreadyRunning, and that process changes nothing, then or
\* later: not the file, not the schema gate, the Updater thread or the server.
C2_AlreadyRunningChangesNothing ==
    /\ [](\A p \in Procs :
            exitCause[p] = "already_running" =>
                /\ pc[p] = "terminated"
                /\ ExitStatus(exitCause[p]) = 1
                /\ gate[p] = "none" /\ thread[p] = "none"
                /\ ~serviceStarted[p] /\ ~created[p]
                /\ removed[p] = {} /\ mutated[p] = {})
    /\ [][\A p \in Procs :
            /\ (/\ pc[p] = "create_pid_file"
                /\ pidFileExists
                /\ pc'[p] \notin {"create_pid_file", "stopAndCleanUp"})
               => /\ exitCause'[p] = "already_running"
                  /\ filevars' = filevars
                  /\ OwnEffects(p)' = OwnEffects(p)
            /\ exitCause[p] = "already_running"
               => /\ pc'[p] = pc[p] /\ exitCause'[p] = exitCause[p]
                  /\ OwnEffects(p)' = OwnEffects(p)]_vars

\* a process ended with AlreadyRunning while the other one's file is there
C2_Witness ==
    \E p \in Procs : exitCause[p] = "already_running" /\ pidfile \notin {NoFile, p}

\* C3: the server is started and the Updater thread spawned only after the
\* schema gate returned true: the schema was current, or consent was given
\* and the migration done.
C3_StartOnlyAfterGate ==
    \A p \in Procs :
        (serviceStarted[p] \/ thread[p] # "none") =>
            /\ GateReturnedTrue(p)
            /\ schemaVersion = ExpectedVersion
            /\ gate[p] = "migrated" => "schema" \in mutated[p]

\* the server runs after a migration the operator consented to
C3_Witness ==
    \E p \in Procs : serviceStarted[p] /\ gate[p] = "migrated" /\ thread[p] # "none"

\* C4 as stated: consent refused ends the process with a non-zero status and
\* the run has written neither the schema version store nor the index,
\* whatever update, dropfiledb and setup were.
C4_Original ==
    \A p \in Procs :
        gate[p] = "refused" =>
            /\ pc[p] = "terminated" /\ ExitStatus(exitCause[p]) # 0
            /\ mutated[p] = {}

\* C4 amended: consent refused ends the process with status 1; the run never
\* writes the schema version store, and writes the index only by the reset
\* that dropfiledb asked for, which precedes the gate; the refusal itself
\* changes no file.
C4_RefusalLeavesData ==
    /\ [](\A p \in Procs :
            gate[p] = "refused" =>
                /\ pc[p] = "terminated" /\ ExitStatus(exitCause[p]) = 1
                /\ "schema" \notin mutated[p]
                /\ thread[p] = "none" /\ indexOps[p] = <<>>
                /\ mutated[p] = IF args[p].dropfiledb THEN {"index"} ELSE {})
    /\ [][\A p \in Procs :
            (gate[p] = "asking" /\ gate'[p] = "refused") =>
                filevars' = filevars]_vars

\* consent refused in a run without dropfiledb that asked for a partial update
C4_Witness ==
    \E p \in Procs :
        /\ gate[p] = "refused" /\ ~args[p].dropfiledb
        /\ Truthy(update[p]) /\ index = InitialIndex

\* C5 as stated: with dropfiledb the schema gate is never invoked and the
\* request launched is "full".
C5_Original ==
    \A p \in Procs :
        args[p].dropfiledb =>
            /\ gate[p] = "none"
            /\ thread[p] # "none" => RefreshRequest(update[p]).op = "full"

\* C5 amended: with dropfiledb the request launched is always "full",
\* whatever targets were supplied, and the index is reset; the gate is not
\* bypassed: it is invoked after the reset (and may ask for consent), and the
\* Updater thread starts only after it returned true.
C5_DropIsFullAndGated ==
    \A p \in Procs :
        args[p].dropfiledb =>
            /\ gate[p] # "none" => "index" \in mutated[p] /\ update[p] = EmptyUpdate
            /\ thread[p] # "none" =>
                   GateReturnedTrue(p) /\ RefreshRequest(update[p]).op = "full"
            /\ \A i \in 1..Len(indexOps[p]) : indexOps[p][i].op = "full"

\* a dropfiledb run whose gate asked for consent and whose thread did a full update
C5_Witness ==
    \E p \in Procs :
        /\ args[p].dropfiledb /\ gate[p] = "migrated"
        /\ thread[p] = "done" /\ indexOps[p] = <<RefreshRequest(EmptyUpdate)>>

StopPcs == {"stopAndCleanUp", "stop_remove", "terminated"}

\* C6 as stated: in setup mode the server is never started.
C6_Original ==
    \A p \in Procs : args[p].setup => ~serviceStarted[p]

\* C6 amended: the roles of the two modes are the other way round.  Without
\* setup, a run that launched a refresh goes straight to stopAndCleanUp and
\* never starts the server; with setup a refresh is always launched and the
\* run goes on to start_server at once, while the thread is still running.
C6_SetupServesOthersExit ==
    /\ [](\A p \in Procs :
            /\ (thread[p] # "none" /\ ~args[p].setup) =>
                   ~serviceStarted[p] /\ pc[p] \in StopPcs
            /\ serviceStarted[p] => args[p].setup = update[p].given)
    /\ [][\A p \in Procs :
            (thread[p] = "none" /\ thread'[p] # "none") =>
                /\ thread'[p] = "running"
                /\ pc'[p] = IF args[p].setup THEN "start_server"
                                             ELSE "stopAndCleanUp"]_vars

\* one run without setup ended after launching, the other, with setup, serves
\* while its refresh is still running
C6_Witness ==
    \E p, q \in Procs :
        /\ ~args[p].setup /\ thread[p] # "none" /\ exitCause[p] = "cleanup"
        /\ args[q].setup /\ serviceStarted[q] /\ thread[q] = "running"

EarlyExits == {"new_config", "welcome", "migration_notice"}

\* C7 as stated: the marker is acquired before the configuration is
\* resolved and before any first-run or new-config exit.
C7_Original ==
    \A p \in Procs :
        (configResolved[p] \/ exitCause[p] \in EarlyExits) => created[p]

\* C7 amended: the order is ConfigResolved, GuardAcquired, SchemaChecked,
\* RefreshLaunched, ServiceStarted: the configuration is resolved (and the
\* first-run and new-config exits taken) before the marker is written, the
\* marker before the gate, the gate before the launch, the launch before
\* the server start.
C7_StartupOrder ==
    /\ [](\A p \in Procs :
            /\ exitCause[p] \in EarlyExits => ~configResolved[p] /\ ~created[p]
            /\ created[p] => configResolved[p]
            /\ gate[p] # "none" => created[p]
            /\ thread[p] # "none" => GateReturnedTrue(p)
            /\ serviceStarted[p] => GateReturnedTrue(p))
    /\ [][\A p \in Procs :
            serviceStarted[p] => (thread'[p] = "none") = (thread[p] = "none")]_vars

\* a run that went through every step
C7_Witness ==
    \E p \in Procs :
        /\ configResolved[p] /\ created[p] /\ gate[p] = "current"
        /\ thread[p] = "done" /\ serviceStarted[p]

\* C8: a process that has not created the process id file never removes one.
C8_RemovesOnlyAfterCreating ==
    \A p \in Procs : removed[p] # {} => created[p]

\* C9: delete_pid_file called when no file exists fails nothing and changes
\* nothing, and every call that returns leaves the file absent, the second
\* of two calls in sequence as the first.
C9_ReleaseIdempotent ==
    [][\A p \in Procs :
        /\ (/\ pc[p] \in {"stopAndCleanUp", "delete_pid_file"}
            /\ ~pidFileExists
            /\ pc'[p] \notin {pc[p], "stopAndCleanUp"})
           => /\ filevars' = filevars
              /\ removed'[p] = removed[p]
              /\ exitCause'[p] # "os_error"
              /\ released'[p] = released[p] + 1
        /\ released'[p] # released[p]
           => /\ pidfile' = NoFile
              /\ released[p] > 0 /\ pidfile = NoFile => filevars' = filevars]_vars

\* a process released twice: at the end of __init__ and in stopAndCleanUp
C9_Witness ==
    \E p \in Procs : released[p] = 2 /\ removed[p] = {p} /\ pidfile = NoFile

\* C10: a signal received once the server is started ends the process with
\* exit status 0 and its process id file removed.
C10_SignalEndsClean ==
    \A p \in Procs :
        (serviceStarted[p] /\ signalled[p] /\ pc[p] = "terminated") =>
            /\ ExitStatus(exitCause[p]) = 0
            /\ pidfile # p

\* p takes the step of setup_config that follows the browsersetup branch
SetupConfigStep(p) ==
    /\ pc[p] \in {"setup_config", "config_file"}
    /\ pc'[p] \in {"install_handlers", "terminated"}
    /\ exitCause'[p] # "killed"

\* the run has done nothing beyond setup_config
NothingStarted(p) ==
    /\ ~created[p] /\ removed[p] = {} /\ gate[p] = "none"
    /\ thread[p] = "none" /\ ~serviceStarted[p] /\ mutated[p] = {}

\* C11 as stated: whenever setup_config finds no configuration file (and
\* createNewConfig was not asked for), the defaults are written to the
\* configuration file and the process ends with exit status 0.
C11_Original ==
    [][\A p \in Procs :
        (SetupConfigStep(p) /\ ~configFile /\ ~args'[p].createNewConfig) =>
            /\ configFile'
            /\ pc'[p] = "terminated" /\ ExitStatus(exitCause'[p]) = 0]_vars

\* C11 amended: whenever setup_config finds no configuration file (and
\* createNewConfig was not asked for) the process ends there, without marker,
\* gate, refresh or server: with the defaults written and exit status 0, or,
\* when the fallback path is in use, with the migration notice, exit status 1
\* and no file written.
C11_FirstRunExits ==
    /\ [](\A p \in Procs :
            exitCause[p] \in {"welcome", "migration_notice"} =>
                /\ pc[p] = "terminated" /\ NothingStarted(p) /\ ~configResolved[p]
                /\ exitCause[p] = "welcome" => configFile)
    /\ [][\A p \in Procs :
            (SetupConfigStep(p) /\ ~configFile /\ ~args'[p].createNewConfig) =>
                /\ pc'[p] = "terminated"
                /\ \/ /\ exitCause'[p] = "welcome"
                      /\ ExitStatus(exitCause'[p]) = 0
                      /\ configFile'
                   \/ /\ exitCause'[p] = "migration_notice"
                      /\ ExitStatus(exitCause'[p]) = 1
                      /\ ~configFile'
                /\ <<pidfile, newConfigFile, schemaVersion, index>>'
                     = <<pidfile, newConfigFile, schemaVersion, index>>]_vars

\* a first run wrote the defaults and ended; no marker was written
C11_Witness ==
    \E p \in Procs :
        exitCause[p] = "welcome" /\ configFile /\ pidfile = NoFile /\ ~created[p]

\* C12: a terminated run has status 0 if it ended by a signal-driven
\* shutdown, the welcome exit or the new-config exit, and status 1 if it
\* ended because the marker exists, consent was refused or the migration
\* notice was printed.
C12_ExitStatusByCause ==
    \A p \in Procs :
        pc[p] = "terminated" =>
            /\ (signalled[p] \/ exitCause[p] \in {"welcome", "new_config"})
                   => ExitStatus(exitCause[p]) = 0
            /\ exitCause[p] \in {"already_running", "consent_refused",
                                 "migration_notice"}
                   => ExitStatus(exitCause[p]) = 1

\* p's step starts the Updater thread
Spawns(p) == thread[p] # "running" /\ thread'[p] = "running"

\* C15: a run starts at most one Updater thread and the thread acts on the
\* value of update once: None gives no thread and no index operation, a
\* non-empty update gives exactly one partial update of its targets and no
\* full update, an empty update gives exactly one full update and no partial.
C15_OneRefreshOnce ==
    /\ [](\A p \in Procs :
            /\ ~update[p].given => thread[p] = "none"
            /\ thread[p] # "done" => indexOps[p] = <<>>
            /\ (thread[p] = "done" /\ Len(update[p].paths) > 0) =>
                   indexOps[p] = <<[op |-> "partial", targets |-> update[p].paths]>>
            /\ (thread[p] = "done" /\ Len(update[p].paths) = 0) =>
                   indexOps[p] = <<[op |-> "full", targets |-> <<>>]>>)
    /\ [][\A p \in Procs : Spawns(p) => thread[p] = "none"]_vars

\* a thread has finished one partial update of its targets
C15_Witness ==
    \E p \in Procs :
        /\ thread[p] = "done" /\ Len(update[p].paths) > 0
        /\ Len(indexOps[p]) = 1 /\ indexOps[p][1].op = "partial"

\* C17: while the consent callback is pending the process has not started
\* its Updater thread, and the thread is only started once the gate has
\* returned.
C17_ConsentBeforeRefresh ==
    /\ [](\A p \in Procs :
            gate[p] = "asking" => thread[p] = "none" /\ indexOps[p] = <<>>)
    /\ [][\A p \in Procs : Spawns(p) => GateReturnedTrue(p)]_vars

\* the consent callback is pending in a run that asked for a refresh
C17_Witness ==
    \E p \in Procs :
        /\ pc[p] = "consent" /\ gate[p] = "asking"
        /\ update[p].given /\ thread[p] = "none"

\* C18: a run that created the process id file and has terminated no
\* longer has its file on disk.
C18_TerminatedRunLeavesNoMarker ==
    \A p \in Procs : (pc[p] = "terminated" /\ created[p]) => pidfile # p

\* C19 as stated: while the Updater thread of a process runs, the process
\* has not released the process id file.
C19_Original ==
    \A p \in Procs : thread[p] = "running" => released[p] = 0

\* C19 amended: the Updater thread is started by a process that has created
\* the process id file and has not yet released it; the file is not held
\* for as long as the thread runs.
C19_SpawnedWhileHolding ==
    /\ [](\A p \in Procs : thread[p] # "none" => created[p])
    /\ [][\A p \in Procs :
            Spawns(p) => created[p] /\ released[p] = 0 /\ removed[p] = {}]_vars

\* the thread of p still runs, p has released its file and the other
\* process has written its own
C19_Witness ==
    \E p, q \in Procs :
        /\ p # q /\ thread[p] = "running" /\ released[p] > 0
        /\ created[q] /\ pidfile = q

\* the request that the claim derives from update, dropfiledb and setup
DerivedRequest(u, dropfiledb, setup) ==
    IF dropfiledb THEN [op |-> "full", targets |-> <<>>]
    ELSE IF setup /\ ~u.given THEN [op |-> "full", targets |-> <<>>]
    ELSE IF u.given /\ Len(u.paths) = 0 THEN [op |-> "full", targets |-> <<>>]
    ELSE IF u.given THEN [op |-> "partial", targets |-> u.paths]
    ELSE [op |-> "none", targets |-> <<>>]

\* C20: the request acted on is full under dropfiledb, else full under setup
\* with no update, else full for an empty list, partial for a non-empty list
\* and none for an absent update; with none the run goes on to start the
\* server without an Updater thread.
C20_RequestDerivation ==
    /\ [][\A p \in Procs :
            (pc[p] = "resetdb" /\ pc'[p] = "ensure_current_version") =>
                RefreshRequest(update'[p])
                  = DerivedRequest(update[p], args[p].dropfiledb, args[p].setup)]_vars
    /\ [][\A p \in Procs :
            (pc[p] = "launch" /\ pc'[p] # "launch" /\ ~signalled'[p]
             /\ ~update[p].given) =>
                pc'[p] = "start_server" /\ thread'[p] = "none"]_vars
    /\ [](\A p \in Procs :
            (serviceStarted[p] /\ ~update[p].given) =>
                thread[p] = "none" /\ indexOps[p] = <<>>)

\* a run without update, dropfiledb or setup serves with no thread
C20_Witness ==
    \E p \in Procs :
        /\ pc[p] = "serving" /\ ~update[p].given
        /\ ~args[p].dropfiledb /\ ~args[p].setup /\ thread[p] = "none"

\* C16 (SpecAlone): the releases of one process, from __init__ or
\* stopAndCleanUp in the main flow and from the signal handler that may
\* interrupt it anywhere, never raise and never remove a file that is gone:
\* after a release the file is absent, and a signalled process ends with
\* status 0.
C16_OwnReleasesNeverFail ==
    /\ exitCause[Alone] # "os_error"
    /\ removed[Alone] \subseteq {Alone}
    /\ released[Alone] > 0 => pidfile = NoFile
    /\ (signalled[Alone] /\ pc[Alone] = "terminated") =>
           /\ exitCause[Alone] = "cleanup" /\ ExitStatus(exitCause[Alone]) = 0
           /\ pidfile = NoFile

\* the main flow's release has returned and the signal handler has released
\* again
C16_Witness ==
    /\ signalled[Alone] /\ released[Alone] = 2 /\ removed[Alone] = {Alone}
    /\ exitCause[Alone] = "cleanup" /\ pidfile = NoFile

\* no value of the file or of the override is rejected
AllValid ==
    /\ \A k \in DOMAIN filecfg : Valid(filecfg[k])
    /\ \A k \in DOMAIN override_dict : Valid(override_dict[k])

\* C13 (SpecConfig): with all values valid, the config that _init_config
\* produces holds for every key the override's value if the override has the
\* key, else the file's value if the file has it, else the default's.
C13_LayeredLookup ==
    (configStep = "done" /\ AllValid) =>
        \A k \in Keys :
            IF k \in DOMAIN override_dict
            THEN k \in DOMAIN config /\ config[k].value = override_dict[k]
            ELSE IF k \in DOMAIN filecfg
            THEN k \in DOMAIN config /\ config[k].value = filecfg[k]
            ELSE IF k \in DOMAIN defaults
            THEN k \in DOMAIN config /\ config[k].value = defaults[k].value
            ELSE k \notin DOMAIN config

\* one key is in all three layers and got the override's value, the other is
\* in the file and the defaults only and got the file's
C13_Witness ==
    /\ configStep = "done" /\ AllValid
    /\ KeyA \in DOMAIN defaults /\ KeyA \in DOMAIN filecfg
    /\ KeyA \in DOMAIN override_dict /\ override_dict[KeyA] # filecfg[KeyA]
    /\ config[KeyA].value = override_dict[KeyA]
    /\ KeyZ \in DOMAIN defaults /\ KeyZ \in DOMAIN filecfg
    /\ KeyZ \notin DOMAIN override_dict /\ filecfg[KeyZ] # defaults[KeyZ].value
    /\ config[KeyZ].value = filecfg[KeyZ]

\* the keys that the claim reports as new and as deprecated
NewKeys == {k \in DOMAIN defaults : k \notin DOMAIN filecfg /\ ~defaults[k].hidden}
DeprecatedKeys == DOMAIN filecfg \ DOMAIN defaults

\* the entries of a list
Entries(list) == {list[i] : i \in 1..Len(list)}

\* C14 (SpecConfig): the list new holds, once each, the keys that are in
\* the defaults, not in the file and not hidden; the list deprecated holds,
\* once each, the keys that are in the file and not in the defaults;
\* whatever the override is; the defaults and the file configuration are
\* left as they were.
C14_Diagnostics ==
    /\ [](configStep = "done" =>
            /\ Entries(new) = {transform(k) : k \in NewKeys}
            /\ Len(new) = Cardinality(NewKeys)
            /\ Entries(deprecated) = {transform(k) : k \in DeprecatedKeys}
            /\ Len(deprecated) = Cardinality(DeprecatedKeys))
    /\ [][defaults' = defaults /\ filecfg' = filecfg]_vars

\* one key is reported as new, the other as deprecated, and the override
\* has a key
C14_Witness ==
    /\ configStep = "done"
    /\ new = <<transform(KeyA)>> /\ deprecated = <<transform(KeyZ)>>
    /\ override_dict # <<>>

====
